---- MODULE Spec2Model ----
(***************************************************************************)
(* Model of the RAG-Chatbot retrieval core (helpers/index.py), of the      *)
(* upload pipeline that feeds it (helpers/docs.py) and of the Streamlit    *)
(* session that owns the current index (home.py).                          *)
(*                                                                         *)
(* Texts are sequences of characters.  Scores are Python floats in the     *)
(* code; here they are exact integers: every idf weight is rounded to six  *)
(* decimals (IdfTable) and every score is multiplied by ScoreUnit, a       *)
(* common multiple of all chunk lengths, so tf / lens[i] * idf is computed *)
(* without rounding.  Floating-point rounding of sums is not modelled.     *)
(***************************************************************************)
EXTENDS Integers, Sequences, FiniteSets, TLC

\* ------------------------------------------------------------------ bounds
MaxChunks == 2      \* chunks handed to build_index by the index harness
MaxTopK   == 2      \* largest top_k the index harness passes to retrieve

\* --------------------------------------------------------------- utilities
Range(s) == {s[k] : k \in DOMAIN s}

Max(a, b) == IF a >= b THEN a ELSE b

Min(a, b) == IF a <= b THEN a ELSE b

SeqsUpTo(S, n) == UNION {[1..k -> S] : k \in 0..n}

\* Python's None
None == [none |-> TRUE]

\* ------------------------------------------------------------------ inputs
\* Texts are sequences of characters: "a" and "b" are lower-case letters, "A"
\* and "B" upper-case letters, " " is white space and "-" is punctuation.

\* chunk texts handed to build_index by the index harness
ChunkTexts ==
    { <<>>,
      <<"a">>,
      <<"B">>,
      <<"a", " ", "B">>,
      <<"a", " ", "a">>,
      <<"-", "b", "-", "-", "A">>,
      <<"a", "b">>,
      <<"a", " ", "a", " ", "b">> }

\* queries handed to retrieve by the index harness
Queries ==
    { <<>>,
      <<" ">>,
      <<"a">>,
      <<"b">>,
      <<"A", " ", "b">>,
      <<"b", " ", "a">>,
      <<"a", "-", "a">>,
      <<"a", "b">> }

\* texts of uploaded files
FileTexts == {<<" ">>, <<"a">>, <<"B", " ", "a">>}

\* questions typed into the chat input
Questions == {<<"a">>, <<"b">>}

\* --------------------------------------------------------------- tokenizer
\* str.lower() on one character
Lower(c) == IF c = "A" THEN "a" ELSE IF c = "B" THEN "b" ELSE c

\* the character class [a-z0-9] of TOKEN_RE, over the model's alphabet
IsTokenChar(c) == c \in {"a", "b"}

\* TOKEN_RE.findall: the maximal runs of token characters, left to right
RECURSIVE FindAll(_, _, _)
FindAll(text, cur, acc) ==
    IF text = <<>> THEN (IF cur = <<>> THEN acc ELSE Append(acc, cur))
    ELSE IF IsTokenChar(Head(text))
         THEN FindAll(Tail(text), Append(cur, Head(text)), acc)
         ELSE FindAll(Tail(text), <<>>,
                      IF cur = <<>> THEN acc ELSE Append(acc, cur))

tokenize(text) == FindAll([k \in DOMAIN text |-> Lower(text[k])], <<>>, <<>>)

\* ------------------------------------------------------------- build_index
\* a chunk dict as process_uploads makes it
Chunk(id, filename, text) ==
    [id |-> id, filename |-> filename, text |-> text, page |-> 1]

\* an empty dict / defaultdict
EmptyMap == [x \in {} |-> 0]

\* 10^6 * (ln((N + 1) / (df + 0.5)) + 1.0), rounded: row N, column df
IdfTable ==
    <<
       <<1287682, 776856, 440384, 189070, -11601, -178655,
         -321756, -446919, -558145, -658228, -749200, -832581>>,
       <<1693147, 1182322, 845849, 594535, 393864, 226810,
         83709, -41454, -152680, -252763, -343735, -427116>>,
       <<1980829, 1470004, 1133531, 882217, 681546, 514492,
         371391, 246228, 135003, 34919, -56053, -139434>>,
       <<2203973, 1693147, 1356675, 1105361, 904690, 737636,
         594535, 469372, 358146, 258063, 167091, 83709>> >>

Idf(N, df) == IdfTable[N][df]

\* tf = defaultdict(int); for t in toks: tf[t] += 1
RECURSIVE TermFreq(_, _)
TermFreq(toks, tf) ==
    IF toks = <<>> THEN tf
    ELSE LET t == Head(toks) IN
         TermFreq(Tail(toks),
                  IF t \in DOMAIN tf THEN [tf EXCEPT ![t] = @ + 1]
                  ELSE tf @@ (t :> 1))

\* a posting list appended once per token occurrence instead of once per term
AddPostingsPerToken(inv, i, toks) ==
    LET tf == TermFreq(toks, EmptyMap)
        occ(t) == Cardinality({k \in DOMAIN toks : toks[k] = t})
        rep(t) == [k \in 1..occ(t) |-> <<i, tf[t]>>]
    IN [t \in DOMAIN inv \cup DOMAIN tf |->
          IF t \in DOMAIN tf
          THEN (IF t \in DOMAIN inv THEN inv[t] ELSE <<>>) \o rep(t)
          ELSE inv[t]]

\* for t, cnt in tf.items(): inv[t].append((i, cnt))     (inv is a defaultdict)
AddPostings(inv, i, toks) ==
    LET tf == TermFreq(toks, EmptyMap) IN
    [t \in DOMAIN inv \cup DOMAIN tf |->
       IF t \in DOMAIN tf
       THEN Append(IF t \in DOMAIN inv THEN inv[t] ELSE <<>>, <<i, tf[t]>>)
       ELSE inv[t]]

\* the loop over enumerate(chunks); i is the 0-based position of Head(rest)
RECURSIVE BuildLoop(_, _, _, _)
BuildLoop(rest, i, inv, lens) ==
    IF rest = <<>> THEN [inv |-> inv, lens |-> lens]
    ELSE LET toks == tokenize(Head(rest).text) IN
         BuildLoop(Tail(rest), i + 1,
                   IF toks = <<>> THEN inv ELSE AddPostings(inv, i, toks),
                   Append(lens, Max(1, Len(toks))))

build_index(chunks) ==
    LET b   == BuildLoop(chunks, 0, EmptyMap, <<>>)
        N   == Max(1, Len(chunks))
        df  == [t \in DOMAIN b.inv |-> Len(b.inv[t])]
        idf == [t \in DOMAIN df |-> Idf(N, df[t])]
    IN [chunks |-> chunks, inv |-> b.inv, lens |-> b.lens, idf |-> idf, N |-> N]

\* ---------------------------------------------------------------- retrieve
\* the integer that stands for the float 1.0 in an idf weight
IdfOne == 1000 * 1000

RECURSIVE Gcd(_, _)
Gcd(a, b) == IF b = 0 THEN a ELSE Gcd(b, a % b)

RECURSIVE LcmOf(_)
LcmOf(S) ==
    IF S = {} THEN 1
    ELSE LET n == CHOOSE x \in S : TRUE
             r == LcmOf(S \ {n})
         IN (n * r) \div Gcd(n, r)

\* a common multiple of every chunk length lens[i] the model can produce
ScoreUnit == LcmOf({Max(1, Len(tokenize(t))) : t \in ChunkTexts \cup FileTexts})

\* the integer that stands for the float score 1.0
ScoreOne == ScoreUnit * IdfOne

IsPrefix(p, t) == Len(p) <= Len(t) /\ SubSeq(t, 1, Len(p)) = p

\* a lookup that falls back to a term the query term is a prefix of
InvGetPrefix(inv, qt) ==
    [postings |-> IF qt \in DOMAIN inv THEN inv[qt]
                  ELSE IF \E t \in DOMAIN inv : IsPrefix(qt, t)
                       THEN inv[CHOOSE t \in DOMAIN inv : IsPrefix(qt, t)]
                       ELSE <<>>,
     inv |-> inv]

\* inv[qt] on the defaultdict: a missing term is inserted with an empty list
InvSubscript(inv, qt) ==
    [postings |-> IF qt \in DOMAIN inv THEN inv[qt] ELSE <<>>,
     inv |-> IF qt \in DOMAIN inv THEN inv ELSE inv @@ (qt :> <<>>)]

\* postings = inv.get(qt): a missing term reads as no postings, inv untouched
InvGet(inv, qt) ==
    [postings |-> IF qt \in DOMAIN inv THEN inv[qt] ELSE <<>>, inv |-> inv]

\* w_idf = idf.get(qt, 1.0)
IdfGet(idf, qt) == IF qt \in DOMAIN idf THEN idf[qt] ELSE IdfOne

\* scores[i] += delta on a defaultdict(float): a new key is inserted last
Accumulate(scores, i, delta) ==
    IF \E k \in DOMAIN scores : scores[k][1] = i
    THEN [k \in DOMAIN scores |->
            IF scores[k][1] = i THEN <<i, scores[k][2] + delta>> ELSE scores[k]]
    ELSE Append(scores, <<i, delta>>)

\* for i, tf in postings: scores[i] += (tf / lens[i]) * w_idf
RECURSIVE PostingLoop(_, _, _, _)
PostingLoop(postings, lens, w_idf, scores) ==
    IF postings = <<>> THEN scores
    ELSE LET i  == Head(postings)[1]
             tf == Head(postings)[2]
         IN PostingLoop(Tail(postings), lens, w_idf,
                Accumulate(scores, i, tf * (ScoreUnit \div lens[i + 1]) * w_idf))

\* a score table that starts with every chunk at 0.0
ZeroScores(lens) == [k \in DOMAIN lens |-> <<k - 1, 0>>]

\* scores = defaultdict(float): no chunk has a score yet
NoScores(lens) == <<>>

\* a query loop that visits each distinct query term once
RECURSIVE QueryLoopDistinct(_, _, _, _, _)
QueryLoopDistinct(q_tokens, inv, lens, idf, scores) ==
    IF q_tokens = <<>> THEN [scores |-> scores, inv |-> inv]
    ELSE LET qt == Head(q_tokens)
             g  == InvGet(inv, qt)
         IN IF g.postings = <<>> \/ qt \in Range(Tail(q_tokens))
            THEN QueryLoopDistinct(Tail(q_tokens), g.inv, lens, idf, scores)
            ELSE QueryLoopDistinct(Tail(q_tokens), g.inv, lens, idf,
                     PostingLoop(g.postings, lens, IdfGet(idf, qt), scores))

\* for qt in q_tokens: ...   (one round per token occurrence of the query)
RECURSIVE QueryLoop(_, _, _, _, _)
QueryLoop(q_tokens, inv, lens, idf, scores) ==
    IF q_tokens = <<>> THEN [scores |-> scores, inv |-> inv]
    ELSE LET qt == Head(q_tokens)
             g  == InvGet(inv, qt)
         IN IF g.postings = <<>>
            THEN QueryLoop(Tail(q_tokens), g.inv, lens, idf, scores)
            ELSE QueryLoop(Tail(q_tokens), g.inv, lens, idf,
                     PostingLoop(g.postings, lens, IdfGet(idf, qt), scores))

\* a sort that forgets reverse=True: ascending by score
RECURSIVE InsertAsc(_, _)
InsertAsc(sorted, x) ==
    IF sorted = <<>> THEN <<x>>
    ELSE IF Head(sorted)[2] <= x[2]
         THEN <<Head(sorted)>> \o InsertAsc(Tail(sorted), x)
         ELSE <<x>> \o sorted

RECURSIVE SortAscFrom(_, _)
SortAscFrom(items, sorted) ==
    IF items = <<>> THEN sorted
    ELSE SortAscFrom(Tail(items), InsertAsc(sorted, Head(items)))

SortedAscending(items) == SortAscFrom(items, <<>>)

\* Python's stable sort, key = score, reverse=True: equal scores keep the
\* order they have in scores.items()
RECURSIVE InsertDesc(_, _)
InsertDesc(sorted, x) ==
    IF sorted = <<>> THEN <<x>>
    ELSE IF Head(sorted)[2] >= x[2]
         THEN <<Head(sorted)>> \o InsertDesc(Tail(sorted), x)
         ELSE <<x>> \o sorted

RECURSIVE SortDescFrom(_, _)
SortDescFrom(items, sorted) ==
    IF items = <<>> THEN sorted
    ELSE SortDescFrom(Tail(items), InsertDesc(sorted, Head(items)))

Sorted(items) == SortDescFrom(items, <<>>)

\* the slice [:top_k] without the floor at 1, as Python slices
RankedNoFloor(scores, top_k) ==
    LET s == Sorted(scores) IN
    SubSeq(s, 1, IF top_k >= 0 THEN Min(Len(s), top_k) ELSE Max(0, Len(s) + top_k))

\* sorted(...)[:max(1, top_k)]
Ranked(scores, top_k) ==
    LET s == Sorted(scores) IN SubSeq(s, 1, Min(Len(s), Max(1, top_k)))

\* a result item: the chunk's fields plus score
WithScore(c, s) ==
    [id |-> c.id, filename |-> c.filename, text |-> c.text, page |-> c.page,
     score |-> s]

\* d = chunks[i]; d["score"] = float(s): the stored chunk itself gains the score
EnrichAlias(chunks, i, s) ==
    [d |-> WithScore(chunks[i + 1], s),
     chunks |-> [chunks EXCEPT ![i + 1] = WithScore(chunks[i + 1], s)]]

\* d = dict(chunks[i]); d["score"] = float(s): d is a copy, chunks[i] is not
\* written
Enrich(chunks, i, s) == [d |-> WithScore(chunks[i + 1], s), chunks |-> chunks]

\* for i, s in ranked: ...; out.append(d)
RECURSIVE OutLoop(_, _, _)
OutLoop(ranked, chunks, out) ==
    IF ranked = <<>> THEN [out |-> out, chunks |-> chunks]
    ELSE LET e == Enrich(chunks, Head(ranked)[1], Head(ranked)[2]) IN
         OutLoop(Tail(ranked), e.chunks, Append(out, e.d))

\* retrieve(index, query, top_k): the list it returns and the index as the call
\* leaves it
retrieve(index, query, top_k) ==
    IF index = None \/ query = <<>> THEN [out |-> <<>>, index |-> index]
    ELSE LET q_tokens == tokenize(query) IN
         IF q_tokens = <<>> THEN [out |-> <<>>, index |-> index]
         ELSE LET q == QueryLoop(q_tokens, index.inv, index.lens, index.idf,
                                 NoScores(index.lens))
                  after == [index EXCEPT !.inv = q.inv]
              IN IF q.scores = <<>> THEN [out |-> <<>>, index |-> after]
                 ELSE LET o == OutLoop(Ranked(q.scores, top_k), index.chunks, <<>>)
                      IN [out |-> o.out,
                          index |-> [after EXCEPT !.chunks = o.chunks]]

\* ------------------------------------------------- index harness (IndexSpec)
VARIABLES
    lib_index,      \* the index the harness holds, or None
    lib_call,       \* the arguments of the last retrieve call, or None
    lib_out,        \* what that call returned
    ss,             \* st.session_state
    uploader,       \* the files the upload widget holds
    contexts,       \* what the last retrieve of the chat workflow returned
    replaced        \* the terms of the index the last successful upload replaced

vars == <<lib_index, lib_call, lib_out, ss, uploader, contexts, replaced>>

libVars == <<lib_index, lib_call, lib_out>>
appVars == <<ss, uploader, contexts, replaced>>

TopKs == (0 - 1)..MaxTopK

\* chunk sequences handed to build_index: position k carries id k
ChunkSeqs ==
    {[k \in DOMAIN ts |-> Chunk(k, "lib", ts[k])] : ts \in SeqsUpTo(ChunkTexts, MaxChunks)}

\* the harness builds an index, or rebuilds it, before it queries it
BuildIndex(cs) ==
    /\ lib_call = None
    /\ lib_index' = build_index(cs)
    /\ lib_call' = None
    /\ lib_out' = <<>>
    /\ UNCHANGED appVars

\* a call retrieve(index, query, top_k) on what the harness holds: an index,
\* or None before the first build
Retrieve(index, query, top_k) ==
    LET r == retrieve(index, query, top_k) IN
    /\ lib_call' = [index |-> index, query |-> query, top_k |-> top_k]
    /\ lib_out' = r.out
    /\ lib_index' = IF index = None THEN lib_index ELSE r.index
    /\ UNCHANGED appVars

\* ------------------------------------------------------- helpers/docs.py
CHUNK_SIZE == 900

CHUNK_OVERLAP == 120

IsSpace(c) == c = " "

RECURSIVE LStrip(_)
LStrip(text) ==
    IF text /= <<>> /\ IsSpace(Head(text)) THEN LStrip(Tail(text)) ELSE text

RECURSIVE RStrip(_)
RStrip(text) ==
    IF text /= <<>> /\ IsSpace(text[Len(text)])
    THEN RStrip(SubSeq(text, 1, Len(text) - 1))
    ELSE text

\* str.strip()
Strip(text) == RStrip(LStrip(text))

\* the while loop of _chunk_text; start is 0-based
RECURSIVE ChunkLoop(_, _, _, _, _)
ChunkLoop(text, start, size, overlap, acc) ==
    LET n    == Len(text)
        end  == Min(n, start + size)
        acc2 == Append(acc, SubSeq(text, start + 1, end))
    IN IF start >= n THEN acc
       ELSE IF end = n THEN acc2
       ELSE ChunkLoop(text, Max(end - overlap, start + 1), size, overlap, acc2)

chunk_text(text) ==
    LET t == Strip(text) IN
    IF t = <<>> THEN <<>> ELSE ChunkLoop(t, 0, CHUNK_SIZE, CHUNK_OVERLAP, <<>>)

\* the files here are plain-text files: f.name, and the text f's bytes decode to
RECURSIVE ProcessLoop(_, _, _)
ProcessLoop(files, docs, chunks) ==
    IF files = <<>> THEN [docs |-> docs, chunks |-> chunks]
    ELSE LET f  == Head(files)
             cs == chunk_text(f.text)
         IN IF Strip(f.text) = <<>>
            THEN ProcessLoop(Tail(files), docs, chunks)
            ELSE ProcessLoop(Tail(files),
                     Append(docs, [filename |-> f.name, text |-> f.text]),
                     chunks \o [ci \in DOMAIN cs |->
                                  Chunk(<<f.name, ci - 1>>, f.name, cs[ci])])

process_uploads(files) == ProcessLoop(files, <<>>, <<>>)

\* ------------------------------------------------------------------ home.py
MaxFiles == 2       \* files the upload widget holds at once
MaxChat  == 1       \* turns kept in chat_history

FileNames == {"f.txt"}

Files == [name : FileNames, text : FileTexts]

\* what can happen inside the try blocks of one upload
Outcomes == {"ok", "process_raises", "build_raises"}

\* top_k of the chat workflow's retrieve call
ChatTopK == 6

\* SCORE_THRESHOLD = 0.1
SCORE_THRESHOLD == ScoreOne \div 10

\* the ss.setdefault(...) lines
SessionDefaults ==
    [chat_history |-> <<>>, docs |-> <<>>, chunks |-> <<>>, index |-> None,
     last_upload_fp |-> None]

\* _files_fp: (name, size) of every file, in order
files_fp(files) ==
    [fp |-> [k \in DOMAIN files |-> <<files[k].name, Len(files[k].text)>>]]

\* an index that keeps the postings of the index it replaces
MergeIndex(old, chunks) ==
    LET new == build_index(chunks) IN
    IF old = None THEN new
    ELSE [new EXCEPT !.inv =
            [t \in DOMAIN old.inv \cup DOMAIN new.inv |->
               (IF t \in DOMAIN old.inv THEN old.inv[t] ELSE <<>>) \o
               (IF t \in DOMAIN new.inv THEN new.inv[t] ELSE <<>>)]]

\* ss.index = build_index(ss.chunks): old is the index ss.index held before
RefreshIndex(old, chunks) == build_index(chunks)

\* the sidebar's upload block, run on session s with the widget holding files
UploadBlock(s, files, outcome) ==
    IF files = <<>> THEN [ss |-> s, built |-> FALSE]
    ELSE LET fp == files_fp(files) IN
         IF fp = s.last_upload_fp THEN [ss |-> s, built |-> FALSE]
         ELSE IF outcome = "process_raises" THEN [ss |-> s, built |-> FALSE]
         ELSE LET result == process_uploads(files) IN
              IF result.docs = <<>> \/ result.chunks = <<>>
              THEN [ss |-> [s EXCEPT !.last_upload_fp = fp], built |-> FALSE]
              ELSE [ss |-> [s EXCEPT
                              !.docs = result.docs,
                              !.chunks = result.chunks,
                              !.index = IF outcome = "build_raises" THEN None
                                        ELSE RefreshIndex(s.index, result.chunks),
                              !.last_upload_fp = fp],
                    built |-> outcome = "ok"]

\* the terms of the index a successful upload replaced, kept for reference
Replaced(u) ==
    IF ~u.built THEN replaced
    ELSE IF ss.index = None THEN None
    ELSE [terms |-> DOMAIN ss.index.inv]

\* the user changes the files in the upload widget; the script runs
UploadFiles(files, outcome) ==
    LET u == UploadBlock(ss, files, outcome) IN
    /\ uploader' = files
    /\ ss' = u.ss
    /\ replaced' = Replaced(u)
    /\ contexts' = None
    /\ UNCHANGED libVars

\* the script runs for a widget that changes no session state
Rerun(outcome) ==
    LET u == UploadBlock(ss, uploader, outcome) IN
    /\ ss' = u.ss
    /\ replaced' = Replaced(u)
    /\ contexts' = None
    /\ UNCHANGED <<uploader, libVars>>

\* a Clear Library that drops docs and chunks but forgets ss.index
ClearLibraryKeepIndex(outcome) ==
    LET u == UploadBlock(ss, uploader, outcome) IN
    /\ ss' = [u.ss EXCEPT !.docs = <<>>, !.chunks = <<>>,
                          !.last_upload_fp = None]
    /\ replaced' = Replaced(u)
    /\ contexts' = None
    /\ UNCHANGED <<uploader, libVars>>

\* the Clear Library button (the cached sample questions it also drops are
\* not part of this model)
ClearLibrary(outcome) ==
    LET u == UploadBlock(ss, uploader, outcome) IN
    /\ ss' = [u.ss EXCEPT !.docs = <<>>, !.chunks = <<>>, !.index = None,
                          !.last_upload_fp = None]
    /\ replaced' = Replaced(u)
    /\ contexts' = None
    /\ UNCHANGED <<uploader, libVars>>

\* the Clear Chat button
ClearChat(outcome) ==
    LET u == UploadBlock(ss, uploader, outcome) IN
    /\ ss' = [u.ss EXCEPT !.chat_history = <<>>]
    /\ replaced' = Replaced(u)
    /\ contexts' = None
    /\ UNCHANGED <<uploader, libVars>>

\* the chat input workflow for a non-empty user_input
Ask(user_input, outcome) ==
    LET u == UploadBlock(ss, uploader, outcome)
        s == u.ss
        r == retrieve(s.index, user_input, ChatTopK)
        strong == r.out /= <<>> /\ r.out[1].score >= SCORE_THRESHOLD
    IN
    /\ Len(ss.chat_history) < MaxChat
    /\ replaced' = Replaced(u)
    /\ IF s.chunks = <<>>
       THEN /\ ss' = [s EXCEPT !.chat_history =
                        Append(@, [user |-> user_input, assistant |-> "no documents",
                                   sources |-> <<>>])]
            /\ contexts' = None
       ELSE /\ ss' = [s EXCEPT
                        !.index = r.index,
                        !.chat_history =
                            Append(@, [user |-> user_input,
                                       assistant |-> IF strong THEN "answer"
                                                     ELSE "no strong matches",
                                       sources |-> IF strong THEN r.out ELSE <<>>])]
            /\ contexts' = [query |-> user_input, out |-> r.out]
    /\ UNCHANGED <<uploader, libVars>>

\* ------------------------------------------------------------ specifications
Init ==
    /\ lib_index = None
    /\ lib_call = None
    /\ lib_out = <<>>
    /\ ss = SessionDefaults
    /\ uploader = <<>>
    /\ contexts = None
    /\ replaced = None

\* the application session
Next ==
    \/ \E files \in SeqsUpTo(Files, MaxFiles), o \in Outcomes : UploadFiles(files, o)
    \/ \E o \in Outcomes : Rerun(o)
    \/ \E o \in Outcomes : ClearLibrary(o)
    \/ \E o \in Outcomes : ClearChat(o)
    \/ \E q \in Questions, o \in Outcomes : Ask(q, o)

Spec == Init /\ [][Next]_vars

\* build_index and retrieve called as a library
IndexNext ==
    \/ \E cs \in ChunkSeqs : BuildIndex(cs)
    \/ \E q \in Queries, k \in TopKs : Retrieve(lib_index, q, k)

IndexSpec == Init /\ [][IndexNext]_vars

\* ----------------------------------------- reference definitions for claims
\* number of occurrences of term t in a token sequence
Occ(t, toks) == Cardinality({k \in DOMAIN toks : toks[k] = t})

\* number of chunks in which term t occurs
DocFreq(chunks, t) ==
    Cardinality({i \in DOMAIN chunks : t \in Range(tokenize(chunks[i].text))})

\* what one occurrence of term t in a query adds to the score of chunk i
\* (i is 1-based here): (tf / length) * idf
Contribution(chunks, i, t) ==
    LET toks == tokenize(chunks[i].text) IN
    IF Occ(t, toks) = 0 THEN 0
    ELSE Occ(t, toks) * (ScoreUnit \div Len(toks))
           * Idf(Max(1, Len(chunks)), DocFreq(chunks, t))

\* the sum of Contribution over every token occurrence of the query
RECURSIVE RefScore(_, _, _)
RefScore(chunks, i, q_tokens) ==
    IF q_tokens = <<>> THEN 0
    ELSE Contribution(chunks, i, Head(q_tokens))
           + RefScore(chunks, i, Tail(q_tokens))

\* chunk i shares at least one term with the query
Matches(chunks, i, q_tokens) ==
    Range(tokenize(chunks[i].text)) \cap Range(q_tokens) /= {}

\* the last harness call was retrieve on a built index
Called == lib_call /= None /\ lib_call.index /= None

CallChunks == lib_call.index.chunks

CallTokens == tokenize(lib_call.query)

\* the harness gives the chunk at position k the id k, so a result item's id
\* is the 1-based position of its chunk
Positions(out) == [p \in DOMAIN out |-> out[p].id]

\* the terms that occur in a chunk sequence
Terms(chunks) == UNION {Range(tokenize(chunks[i].text)) : i \in DOMAIN chunks}

\* index idx holds exactly what chunk sequence B gives: B itself, and no
\* posting, length or idf entry that B does not account for
OnlyFrom(idx, B) ==
    /\ idx.chunks = B
    /\ idx.N = Max(1, Len(B))
    /\ idx.lens = [i \in DOMAIN B |-> Max(1, Len(tokenize(B[i].text)))]
    /\ DOMAIN idx.inv = Terms(B)
    /\ DOMAIN idx.idf = Terms(B)
    /\ \A t \in DOMAIN idx.inv :
          /\ idx.idf[t] = Idf(Max(1, Len(B)), DocFreq(B, t))
          /\ Len(idx.inv[t]) = DocFreq(B, t)
          /\ \A k \in DOMAIN idx.inv[t] :
                /\ idx.inv[t][k][1] + 1 \in DOMAIN B
                /\ idx.inv[t][k][2] = Occ(t, tokenize(B[idx.inv[t][k][1] + 1].text))
                /\ idx.inv[t][k][2] >= 1

\* a script run that only processes the upload widget
UploadStep ==
    \/ \E files \in SeqsUpTo(Files, MaxFiles), o \in Outcomes : UploadFiles(files, o)
    \/ \E o \in Outcomes : Rerun(o)

\* ----------------------------------------------------------------- claims
\* C1: once an upload has replaced an index by a new one, the current index
\* holds only what the current chunks give, and a retrieve on it returns only
\* current chunks, scored from them alone.
C1_RebuildReplaces ==
    (replaced /= None /\ ss.index /= None) =>
        /\ OnlyFrom(ss.index, ss.chunks)
        /\ contexts /= None =>
              \A p \in DOMAIN contexts.out :
                  \E i \in DOMAIN ss.chunks :
                      contexts.out[p] =
                          WithScore(ss.chunks[i],
                                    RefScore(ss.chunks, i, tokenize(contexts.query)))

C1_Witness ==
    /\ replaced /= None
    /\ ss.index /= None
    /\ contexts /= None
    /\ contexts.out = <<>>
    /\ \E t \in replaced.terms \ DOMAIN ss.index.inv :
          t \in Range(tokenize(contexts.query))

\* C2: an upload-processing step either replaces the library and its index
\* together, or leaves docs, chunks and index exactly as they were.
C2_AtomicUpload ==
    [][UploadStep =>
          \/ /\ ss'.docs = ss.docs
             /\ ss'.chunks = ss.chunks
             /\ ss'.index = ss.index
          \/ /\ ss'.chunks /= <<>>
             /\ ss'.index /= None
             /\ ss'.index = build_index(ss'.chunks)]_vars

\* C3: equal scores are returned in ascending chunk position, whatever the
\* order of the query's terms.
C3_TiesByPosition ==
    Called =>
        \A p, q \in DOMAIN lib_out :
            (p < q /\ lib_out[p].score = lib_out[q].score)
                => lib_out[p].id < lib_out[q].id

\* C4: the result is in non-increasing score order, and no matching chunk left
\* out of it scores strictly more than a returned one.
C4_ScoreOrder ==
    Called =>
        /\ \A p, q \in DOMAIN lib_out :
               p < q => lib_out[p].score >= lib_out[q].score
        /\ \A i \in DOMAIN CallChunks :
               (Matches(CallChunks, i, CallTokens) /\ i \notin Range(Positions(lib_out)))
                   => \A p \in DOMAIN lib_out :
                          lib_out[p].score >= RefScore(CallChunks, i, CallTokens)

C4_Witness ==
    /\ Called
    /\ Len(lib_out) = 2
    /\ lib_out[1].score > lib_out[2].score
    /\ lib_out[1].id > lib_out[2].id

\* C5: the result has min(max(1, top_k), number of matching chunks) items.
C5_TopKBound ==
    Called =>
        Len(lib_out) =
            Min(Max(1, lib_call.top_k),
                Cardinality({i \in DOMAIN CallChunks :
                                Matches(CallChunks, i, CallTokens)}))

C5_Witness ==
    /\ Called
    /\ lib_call.top_k < 1
    /\ Len(lib_out) = 1
    /\ Cardinality({i \in DOMAIN CallChunks : Matches(CallChunks, i, CallTokens)}) = 2

\* C6: every returned chunk shares a token with the query; a chunk whose
\* tokens are disjoint from the query's is never returned.
C6_NoMatchExclusion ==
    Called =>
        \A p \in DOMAIN lib_out :
            /\ lib_out[p].id \in DOMAIN CallChunks
            /\ lib_out[p].text = CallChunks[lib_out[p].id].text
            /\ Matches(CallChunks, lib_out[p].id, CallTokens)

C6_Witness ==
    /\ Called
    /\ lib_call.top_k >= 2
    /\ Len(lib_out) = 1
    /\ Len(CallChunks) = 2
    /\ \E i \in DOMAIN CallChunks :
          /\ tokenize(CallChunks[i].text) /= <<>>
          /\ ~Matches(CallChunks, i, CallTokens)

\* C7: a returned chunk's score is the sum over every token occurrence of the
\* query of (tf / length) * idf, so a repeated query term counts once per
\* occurrence.
C7_PerOccurrence ==
    Called =>
        \A p \in DOMAIN lib_out :
            lib_out[p].score = RefScore(CallChunks, lib_out[p].id, CallTokens)

C7_Witness ==
    /\ Called
    /\ CallTokens = <<(<<"a">>), (<<"a">>)>>
    /\ lib_out /= <<>>
    /\ lib_out[1].score = 2 * Contribution(CallChunks, lib_out[1].id, <<"a">>)
    /\ lib_out[1].score > 0

\* C8: retrieve returns the empty list when the index is None, the query is
\* empty or has no tokens, the index has no chunks, or no query term occurs
\* in the index.
C8_EmptyResult ==
    lib_call /= None =>
        ((\/ lib_call.index = None
          \/ lib_call.query = <<>>
          \/ CallTokens = <<>>
          \/ CallChunks = <<>>
          \/ \A i \in DOMAIN CallChunks : ~Matches(CallChunks, i, CallTokens))
            => lib_out = <<>>)

C8_Witness ==
    /\ Called
    /\ CallTokens /= <<>>
    /\ \E i \in DOMAIN CallChunks : tokenize(CallChunks[i].text) /= <<>>
    /\ \A i \in DOMAIN CallChunks : ~Matches(CallChunks, i, CallTokens)
    /\ lib_out = <<>>

\* C9: a retrieve call leaves the index as it was: same postings (same
\* terms), lengths, idf, N and chunks, and no stored chunk has a score.
C9_IndexUnchanged ==
    [][(lib_index /= None /\ lib_call' /= None) =>
          /\ lib_index' = lib_index
          /\ \A i \in DOMAIN lib_index'.chunks :
                 "score" \notin DOMAIN lib_index'.chunks[i]]_vars

C9_Witness ==
    /\ Called
    /\ lib_index = lib_call.index
    /\ lib_out /= <<>>
    /\ \E k \in DOMAIN CallTokens : CallTokens[k] \notin DOMAIN lib_index.inv

\* C10: every posting list has one entry per chunk that contains the term, in
\* strictly ascending chunk position, with tf the number of occurrences.
C10_PostingLists ==
    lib_index /= None =>
        LET chunks == lib_index.chunks
            inv    == lib_index.inv
        IN /\ DOMAIN inv = Terms(chunks)
           /\ \A t \in DOMAIN inv :
                 /\ \A k \in 1..(Len(inv[t]) - 1) : inv[t][k][1] < inv[t][k + 1][1]
                 /\ \A k \in DOMAIN inv[t] :
                       /\ inv[t][k][1] + 1 \in DOMAIN chunks
                       /\ inv[t][k][2] >= 1
                       /\ inv[t][k][2] =
                            Occ(t, tokenize(chunks[inv[t][k][1] + 1].text))
                 /\ \A i \in DOMAIN chunks :
                       Occ(t, tokenize(chunks[i].text)) > 0
                           => \E k \in DOMAIN inv[t] : inv[t][k][1] = i - 1
                 /\ Len(inv[t]) = DocFreq(chunks, t)

C10_Witness ==
    /\ lib_index /= None
    /\ \E t \in DOMAIN lib_index.inv :
          /\ Len(lib_index.inv[t]) = 2
          /\ lib_index.inv[t][1][2] = 2

\* C11: in every state of the session a present index is the index of the
\* current chunk list, an empty chunk list has no index, and the retrieval of
\* a chat turn returns only current chunks, which are the only sources the
\* turn can record.
C11_SessionConsistent ==
    /\ ss.index /= None =>
          (ss.chunks /= <<>> /\ OnlyFrom(ss.index, ss.chunks))
    /\ ss.chunks = <<>> => ss.index = None
    /\ contexts /= None =>
          /\ ss.chunks /= <<>>
          /\ ss.chat_history /= <<>>
          /\ ss.chat_history[Len(ss.chat_history)].user = contexts.query
          /\ ss.chat_history[Len(ss.chat_history)].sources \in {contexts.out, <<>>}
          /\ \A p \in DOMAIN contexts.out :
                \E i \in DOMAIN ss.chunks :
                    contexts.out[p] =
                        WithScore(ss.chunks[i],
                                  RefScore(ss.chunks, i, tokenize(contexts.query)))

\* a library was loaded twice and then cleared, and the question asked after
\* that was answered without documents
C11_Witness ==
    /\ replaced /= None
    /\ ss.chunks = <<>>
    /\ ss.index = None
    /\ ss.last_upload_fp = None
    /\ ss.chat_history /= <<>>
    /\ ss.chat_history[Len(ss.chat_history)].assistant = "no documents"

====
